---- MODULE Spec2Model ----
(***************************************************************************)
(* Ron the reminder bot (src/main.py): the command parser, the in-memory   *)
(* reminder list, the periodic scanner, the delivery coroutine, the        *)
(* inbound endpoint and the lifespan of the process.                       *)
(*                                                                         *)
(* Texts are sequences of one-character strings, so that the two regular   *)
(* expressions of parse_reminder_text are matched character by character.  *)
(* Times are seconds since local midnight of day 0 (the sub-second part of *)
(* datetime.now() is dropped: replace(second=0, microsecond=0) truncates   *)
(* both to the minute in the same way).                                    *)
(***************************************************************************)
EXTENDS Integers, Sequences, FiniteSets, TLC

(***************************************************************************)
(* Characters                                                              *)
(***************************************************************************)
Digits == <<"0", "1", "2", "3", "4", "5", "6", "7", "8", "9">>

DigitVal(c) == (CHOOSE i \in 1..10 : Digits[i] = c) - 1

IsDigit(c) == \E i \in 1..10 : Digits[i] = c

IsSpace(c) == c \in {" ", "\t", "\n", "\r"}

Upper == <<"A", "B", "C", "D", "E", "F", "G", "H", "I", "J", "K", "L", "M",
           "N", "O", "P", "Q", "R", "S", "T", "U", "V", "W", "X", "Y", "Z">>

Lowercase == <<"a", "b", "c", "d", "e", "f", "g", "h", "i", "j", "k", "l", "m",
               "n", "o", "p", "q", "r", "s", "t", "u", "v", "w", "x", "y", "z">>

\* str.lower() of one character (re.IGNORECASE compares case-folded).
Lower(c) ==
    IF \E i \in 1..26 : Upper[i] = c
    THEN Lowercase[CHOOSE i \in 1..26 : Upper[i] = c]
    ELSE c

\* str.strip(): leading and trailing whitespace removed.
RECURSIVE LStrip(_)
LStrip(s) == IF s # <<>> /\ IsSpace(Head(s)) THEN LStrip(Tail(s)) ELSE s

RECURSIVE RStrip(_)
RStrip(s) ==
    IF s # <<>> /\ IsSpace(s[Len(s)]) THEN RStrip(SubSeq(s, 1, Len(s) - 1)) ELSE s

strip(s) == RStrip(LStrip(s))

\* int() of a string of decimal digits.
RECURSIVE int(_)
int(s) == IF s = <<>> THEN 0 ELSE 10 * int(SubSeq(s, 1, Len(s) - 1)) + DigitVal(s[Len(s)])

(***************************************************************************)
(* Regular expressions: a pattern is a sequence of items, each a character *)
(* class with a repetition count {min, max}, greedy or lazy, capturing or  *)
(* not.  Matching is Python's backtracking search: leftmost start, and for *)
(* each item the repetition counts tried in priority order.                *)
(***************************************************************************)
Inf == 1000000

Lit(c) == [cls |-> "lit", c |-> c, min |-> 1, max |-> 1, greedy |-> TRUE, cap |-> FALSE]

Rep(cls, min, max, greedy, cap) ==
    [cls |-> cls, c |-> "", min |-> min, max |-> max, greedy |-> greedy, cap |-> cap]

RECURSIVE LitSeq(_)
LitSeq(s) == IF s = <<>> THEN <<>> ELSE <<Lit(Head(s))>> \o LitSeq(Tail(s))

InClass(item, ch) ==
    CASE item.cls = "lit" -> Lower(ch) = Lower(item.c)
      [] item.cls = "space" -> IsSpace(ch)
      [] item.cls = "digit" -> IsDigit(ch)
      [] item.cls = "any" -> ch # "\n"

\* How many consecutive characters from pos are in the item's class, up to lim.
RECURSIVE Run(_, _, _, _)
Run(item, text, pos, lim) ==
    IF lim > 0 /\ pos <= Len(text) /\ InClass(item, text[pos])
    THEN 1 + Run(item, text, pos + 1, lim - 1)
    ELSE 0

NoMatch == [ok |-> FALSE, caps |-> <<>>]

\* match the items k.. of pat at pos; caps are the captured groups so far.
RECURSIVE MatchAt(_, _, _, _, _)
RECURSIVE TryCount(_, _, _, _, _, _, _)
MatchAt(pat, k, text, pos, caps) ==
    IF k > Len(pat) THEN [ok |-> TRUE, caps |-> caps]
    ELSE LET item == pat[k]
             most == Run(item, text, pos, item.max)
         IN  IF most < item.min THEN NoMatch
             ELSE TryCount(pat, k, text, pos, caps,
                           IF item.greedy THEN most ELSE item.min, most)

TryCount(pat, k, text, pos, caps, n, most) ==
    LET item == pat[k]
        caps2 == IF item.cap THEN Append(caps, SubSeq(text, pos, pos + n - 1)) ELSE caps
        rest == MatchAt(pat, k + 1, text, pos + n, caps2)
    IN  IF rest.ok THEN rest
        ELSE IF item.greedy
             THEN IF n > item.min THEN TryCount(pat, k, text, pos, caps, n - 1, most)
                  ELSE NoMatch
             ELSE IF n < most THEN TryCount(pat, k, text, pos, caps, n + 1, most)
                  ELSE NoMatch

\* re.search: the match at the leftmost position that has one.
RECURSIVE SearchFrom(_, _, _)
SearchFrom(pat, text, pos) ==
    IF pos > Len(text) + 1 THEN NoMatch
    ELSE LET m == MatchAt(pat, 1, text, pos, <<>>)
         IN  IF m.ok THEN m ELSE SearchFrom(pat, text, pos + 1)

re_search(pat, text) == SearchFrom(pat, text, 1)

Head_remindme ==
    LitSeq(<<"/", "r", "e", "m", "i", "n", "d", "m", "e">>)
        \o <<Rep("space", 1, Inf, TRUE, FALSE), Lit("\""),
             Rep("any", 0, Inf, FALSE, TRUE), Lit("\""),
             Rep("space", 1, Inf, TRUE, FALSE)>>

\* r'/remindme\s+"(.*?)"\s+in\s+(\d+)\s+minutes?'
PatternIn ==
    Head_remindme
        \o LitSeq(<<"i", "n">>)
        \o <<Rep("space", 1, Inf, TRUE, FALSE), Rep("digit", 1, Inf, TRUE, TRUE),
             Rep("space", 1, Inf, TRUE, FALSE)>>
        \o LitSeq(<<"m", "i", "n", "u", "t", "e">>)
        \o <<[Lit("s") EXCEPT !.min = 0]>>

\* r'/remindme\s+"(.*?)"\s+at\s+(\d{1,2}):(\d{2})'
PatternAt ==
    Head_remindme
        \o LitSeq(<<"a", "t">>)
        \o <<Rep("space", 1, Inf, TRUE, FALSE), Rep("digit", 1, 2, TRUE, TRUE),
             Lit(":"), Rep("digit", 2, 2, TRUE, TRUE)>>

(***************************************************************************)
(* Time: seconds since local midnight of day 0.                            *)
(***************************************************************************)
Minute == 60

Hour == 60 * Minute

Day == 24 * Hour

\* timedelta(minutes = n), timedelta(days = n)
timedelta_minutes(n) == n * Minute

timedelta_days(n) == n * Day

\* now.replace(hour = h, minute = m, second = 0, microsecond = 0); the
\* datetime constructor raises ValueError outside 0..23 and 0..59.
replace_valid(h, m) == h \in 0..23 /\ m \in 0..59

replace(now, h, m) == (now \div Day) * Day + h * Hour + m * Minute

\* A string of more than MaxMinuteDigits significant digits is more minutes
\* than there are between any date and datetime.max (year 9999, less than
\* 10^10 minutes from year 1): now + timedelta(minutes = n) raises
\* OverflowError.  The commands of the model have at most four digits or
\* more than MaxMinuteDigits.
MaxMinuteDigits == 10

RECURSIVE StripZeros(_)
StripZeros(s) == IF s # <<>> /\ Head(s) = "0" THEN StripZeros(Tail(s)) ELSE s

(***************************************************************************)
(* parse_reminder_text(text), with datetime.now() passed in as now.  The   *)
(* result is None, a pair (message, reminder_time), or an exception that   *)
(* leaves the function.                                                    *)
(***************************************************************************)
None == [kind |-> "None"]

Parsed(message, reminder_time) ==
    [kind |-> "parsed", message |-> message, time |-> reminder_time]

Raise(exc) == [kind |-> "raise", exc |-> exc]

parse_in(match, now) ==
    LET message == match.caps[1]
        digits == match.caps[2]
    IN  IF Len(StripZeros(digits)) > MaxMinuteDigits
        THEN Raise("OverflowError")
        ELSE Parsed(message, now + timedelta_minutes(int(digits)))

\* The roll to the next day left out.
RollTomorrow_never(reminder_time, now) == FALSE

\* The roll also when the time is exactly now.
RollTomorrow_or_equal(reminder_time, now) == reminder_time <= now

\* `if reminder_time < now`
RollTomorrow(reminder_time, now) == reminder_time < now

parse_at(match, now) ==
    LET message == match.caps[1]
        hour == int(match.caps[2])
        minute == int(match.caps[3])
        reminder_time == replace(now, hour, minute)
    IN  IF ~replace_valid(hour, minute)
        THEN Raise("ValueError")
        ELSE IF RollTomorrow(reminder_time, now)
             THEN Parsed(message, reminder_time + timedelta_days(1))
             ELSE Parsed(message, reminder_time)

(***************************************************************************)
(* Command texts the requests are drawn from.                              *)
(***************************************************************************)
SP == <<" ">>

Quoted(m) == <<"\"">> \o m \o <<"\"">>

W_remindme == <<"/", "r", "e", "m", "i", "n", "d", "m", "e">>

W_in == <<"i", "n">>

W_at == <<"a", "t">>

W_minutes == <<"m", "i", "n", "u", "t", "e", "s">>

W_minute == <<"m", "i", "n", "u", "t", "e">>

CmdIn(m, n, unit) == W_remindme \o SP \o Quoted(m) \o SP \o W_in \o SP \o n \o SP \o unit

CmdAt(m, h, mm) == W_remindme \o SP \o Quoted(m) \o SP \o W_at \o SP \o h \o <<":">> \o mm

MsgA == <<"a">>

MsgB == <<"b">>

HelloThere == <<"h", "e", "l", "l", "o", " ", "t", "h", "e", "r", "e">>

ManyDigits == <<"9", "9", "9", "9", "9", "9", "9", "9", "9", "9", "9">>

\* The command texts of the requests.
Texts ==
    { CmdIn(MsgA, <<"0">>, W_minutes),
      CmdIn(MsgB, <<"1">>, W_minute),
      CmdIn(<<>>, <<"1">>, W_minutes),
      CmdIn(MsgA, ManyDigits, W_minutes),
      CmdAt(MsgA, <<"0">>, <<"0", "1">>),
      CmdAt(MsgB, <<"2", "5">>, <<"0", "0">>),
      CmdAt(MsgA, <<"0">>, <<"6", "0">>),
      HelloThere }

(***************************************************************************)
(* Requests (JSONRPCRequest, already validated by the framework).          *)
(***************************************************************************)
\* MessagePart.text is Optional[str]: None is the one value that is no string
\* of characters.
NoText == <<"None">>

TextPart(t) == [kind |-> "text", text |-> t]

DataPart == [kind |-> "data", text |-> NoText]

\* configuration.pushNotificationConfig: None, or an object with a url.
NoPushConfig == [present |-> FALSE, url |-> ""]

PushConfig(url) == [present |-> TRUE, url |-> url]

Request(id, parts, contextId, config) ==
    [id |-> id, parts |-> parts, contextId |-> contextId, config |-> config]

\* Two conversations, each with its context id and callback URL; the first
\* one also without a push configuration and with an empty URL.
Callers ==
    { <<"rpc1", "ctx1", NoPushConfig>>,
      <<"rpc1", "ctx1", PushConfig("")>>,
      <<"rpc1", "ctx1", PushConfig("u1")>>,
      <<"rpc2", "ctx2", PushConfig("u2")>> }

\* Message parts around a text: no part, no text part, a text part without
\* text, and a text part after a data part and before another text part.
OddParts ==
    { <<>>,
      <<DataPart>>,
      <<TextPart(NoText)>>,
      <<DataPart, TextPart(<<" ">> \o CmdIn(MsgB, <<"1">>, W_minutes) \o <<"\n">>),
        TextPart(HelloThere)>> }

\* Every text from every caller, and the odd parts: the requests of the
\* runs that look at one exchange.
Requests ==
    { Request(c[1], <<TextPart(t)>>, c[2], c[3]) : t \in Texts, c \in Callers }
        \cup
    { Request("rpc3", parts, "ctx1", PushConfig("u1")) : parts \in OddParts }

\* The requests of the runs that look at the list: three commands that make
\* a reminder, from the two conversations, and three requests that make
\* none.
StoreRequests ==
    { Request("rpc1", <<TextPart(CmdIn(MsgA, <<"0">>, W_minutes))>>, "ctx1", PushConfig("u1")),
      Request("rpc1", <<TextPart(CmdAt(MsgA, <<"0">>, <<"0", "1">>))>>, "ctx1", PushConfig("u1")),
      Request("rpc2", <<TextPart(CmdIn(<<>>, <<"1">>, W_minutes))>>, "ctx2", PushConfig("u2")),
      Request("rpc1", <<TextPart(HelloThere)>>, "ctx1", PushConfig("u1")),
      Request("rpc1", <<TextPart(CmdIn(MsgA, <<"0">>, W_minutes))>>, "ctx1", PushConfig("")),
      Request("rpc1", <<TextPart(CmdIn(MsgA, <<"0">>, W_minutes))>>, "ctx1", NoPushConfig) }

(***************************************************************************)
(* parse_reminder_text                                                     *)
(***************************************************************************)
\* The strings that are the text of some part of some request, stripped as
\* the endpoint strips them, and the empty string.
RequestTexts ==
    {<<>>} \cup
    UNION { { strip(r.parts[i].text) : i \in {j \in DOMAIN r.parts : r.parts[j].text # NoText} }
            : r \in Requests }

\* Hours and minutes as the commands write them.
H_0 == <<"0">>

H_00 == <<"0", "0">>

H_9 == <<"9">>

H_09 == <<"0", "9">>

H_23 == <<"2", "3">>

H_24 == <<"2", "4">>

M_00 == <<"0", "0">>

M_01 == <<"0", "1">>

M_05 == <<"0", "5">>

M_59 == <<"5", "9">>

M_60 == <<"6", "0">>

\* str.upper()
upper(s) ==
    [k \in DOMAIN s |->
        IF \E i \in 1..26 : Lowercase[i] = s[k]
        THEN Upper[CHOOSE i \in 1..26 : Lowercase[i] = s[k]]
        ELSE s[k]]

CallMom == <<"C", "a", "l", "l", " ", "m", "o", "m">>

\* In-commands as written, each with its message and its number of minutes:
\* N = 0, singular and plural, a leading zero, capitals, more minutes than
\* the first instants have left in their day, and an in-command followed by
\* the tail of an at-command.
InCommands ==
    { [text |-> CmdIn(MsgA, <<"0">>, W_minutes), message |-> MsgA, minutes |-> 0],
      [text |-> CmdIn(MsgB, <<"1">>, W_minute), message |-> MsgB, minutes |-> 1],
      [text |-> CmdIn(MsgB, <<"1">>, W_minutes), message |-> MsgB, minutes |-> 1],
      [text |-> upper(W_remindme) \o SP \o Quoted(CallMom) \o SP \o upper(W_in) \o SP
                    \o <<"0", "7">> \o SP \o upper(W_minute),
       message |-> CallMom, minutes |-> 7],
      [text |-> CmdIn(CallMom, <<"9", "0">>, W_minutes), message |-> CallMom, minutes |-> 90],
      [text |-> CmdIn(MsgA, <<"5">>, W_minutes) \o SP \o Quoted(MsgB) \o SP \o W_at \o SP
                    \o H_9 \o <<":">> \o M_00,
       message |-> MsgA, minutes |-> 5] }

\* An in-command with ManyDigits as its N: 99999999999 minutes.
HugeInCommands ==
    { [text |-> CmdIn(MsgA, ManyDigits, W_minutes), message |-> MsgA] }

\* The commands parse_reminder_text is called with on its own.
ParseTexts ==
    { CmdAt(MsgA, h, m) : h \in {H_0, H_00, H_9, H_09, H_23, H_24},
                          m \in {M_00, M_01, M_05, M_59, M_60} }
        \cup
    { CmdIn(MsgA, <<"0">>, W_minutes), HelloThere }
        \cup
    { c.text : c \in InCommands \cup HugeInCommands }

CommandTexts == RequestTexts \cup ParseTexts

\* re.search(pattern, text, re.IGNORECASE) of the two patterns, computed once
\* for each text.
SearchIn == [t \in CommandTexts |-> re_search(PatternIn, t)]

SearchAt == [t \in CommandTexts |-> re_search(PatternAt, t)]

\* A text that matches neither pattern taken as a reminder for now.
parse_reminder_text_fallback(text, now) ==
    LET matchIn == SearchIn[text]
        matchAt == SearchAt[text]
    IN  IF matchIn.ok THEN parse_in(matchIn, now)
        ELSE IF matchAt.ok THEN parse_at(matchAt, now)
        ELSE Parsed(text, now)

parse_reminder_text(text, now) ==
    LET matchIn == SearchIn[text]
        matchAt == SearchAt[text]
    IN  IF matchIn.ok THEN parse_in(matchIn, now)
        ELSE IF matchAt.ok THEN parse_at(matchAt, now)
        ELSE None

(***************************************************************************)
(* Bounds                                                                  *)
(***************************************************************************)
\* Requests handled in one run that looks at the list, and in one run that
\* looks at one exchange.
MaxRequests == 2

MaxExchanges == 1

\* The instants observed are the full minutes of the first MaxSecond seconds
\* of the days 0..MaxDay.
MaxSecond == 120

MaxDay == 1

ClockSteps == {Minute, Day}

Ids == 1..(IF MaxRequests > MaxExchanges THEN MaxRequests ELSE MaxExchanges)

(***************************************************************************)
(* State                                                                   *)
(***************************************************************************)
VARIABLES
    clock,              \* datetime.now()
    phase,              \* lifespan: "init", "running", "closing", "stopped"
    async_http_client,  \* "None", "open", "closed"
    next_run,           \* next run time of the interval job
    reminders,          \* the list: tuples (time, text, url, context id), with
                        \* the number of the insert as a fifth component
    scanner,            \* check_reminders: "idle", or "gather" at the await
    deliveries,         \* the send_reminder_message coroutines of the tick
    handled,            \* number of requests handled so far
    exchange,           \* the request handled by the last step and what the
                        \* endpoint returned; NoExchange after any other step
    created,            \* history: per insert, the request that made it
    extracted,          \* history: per insert, how often a tick removed it
    posts,              \* history: per insert, the POSTs handed to the client
    parse_args,         \* a call of parse_reminder_text on its own: (text, now)
    parse_ret           \* and what it returned

vars == <<clock, phase, async_http_client, next_run, reminders, scanner, deliveries,
          handled, exchange, created, extracted, posts, parse_args, parse_ret>>

parseVars == <<parse_args, parse_ret>>

NoCall == [text |-> <<>>, now |-> 0]

NotCalled == [kind |-> "not called"]

NoExchange == [request |-> Request("", <<>>, "", NoPushConfig), response |-> [kind |-> "none"]]

NotCreated == [at |-> -1, url |-> "", contextId |-> "", text |-> <<>>]

ProcessInit ==
    /\ clock = 0
    /\ phase = "init"
    /\ async_http_client = "None"
    /\ next_run = 0
    /\ reminders = <<>>
    /\ scanner = "idle"
    /\ deliveries = {}
    /\ handled = 0
    /\ exchange = NoExchange
    /\ created = [i \in Ids |-> NotCreated]
    /\ extracted = [i \in Ids |-> 0]
    /\ posts = [i \in Ids |-> <<>>]

Init ==
    /\ ProcessInit
    /\ parse_args = NoCall
    /\ parse_ret = NotCalled

(***************************************************************************)
(* lifespan                                                                *)
(***************************************************************************)
\* seconds between two runs of check_reminders (minutes=1)
Interval == 1 * Minute

\* Startup: the client is created, the job added and the scheduler started,
\* with no await in between.
Startup ==
    /\ phase = "init"
    /\ phase' = "running"
    /\ async_http_client' = "open"
    /\ next_run' = clock + Interval
    /\ exchange' = NoExchange
    /\ UNCHANGED parseVars
    /\ UNCHANGED <<clock, reminders, scanner, deliveries, handled, created, extracted, posts>>

\* Shutdown, up to the await of aclose(): the client is closed and the
\* scheduler still runs.
ShutdownClient ==
    /\ phase = "running"
    /\ phase' = "closing"
    /\ async_http_client' = "closed"
    /\ exchange' = NoExchange
    /\ UNCHANGED parseVars
    /\ UNCHANGED <<clock, next_run, reminders, scanner, deliveries, handled, created,
                   extracted, posts>>

\* Shutdown, after the await: scheduler.shutdown(); the process ends.
ShutdownScheduler ==
    /\ phase = "closing"
    /\ phase' = "stopped"
    /\ exchange' = NoExchange
    /\ UNCHANGED parseVars
    /\ UNCHANGED <<clock, async_http_client, next_run, reminders, scanner, deliveries,
                   handled, created, extracted, posts>>

SchedulerRunning == phase \in {"running", "closing"}

\* Time passes; it is counted from the local midnight before the startup,
\* which is the first instant observed.
AdvanceClock(d) ==
    /\ phase \in {"running", "closing"}
    /\ (clock % Day) + (d % Day) <= MaxSecond
    /\ (clock + d) \div Day <= MaxDay
    /\ clock' = clock + d
    /\ exchange' = NoExchange
    /\ UNCHANGED parseVars
    /\ UNCHANGED <<phase, async_http_client, next_run, reminders, scanner, deliveries,
                   handled, created, extracted, posts>>

(***************************************************************************)
(* a2a_endpoint                                                            *)
(***************************************************************************)
\* The loop over the parts: the stripped text of the first part of kind
\* "text", "" when there is none; None has no strip().
RECURSIVE user_message_text(_)
user_message_text(parts) ==
    IF parts = <<>> THEN [kind |-> "text", text |-> <<>>]
    ELSE IF Head(parts).kind = "text"
         THEN IF Head(parts).text = NoText
              THEN Raise("AttributeError")
              ELSE [kind |-> "text", text |-> strip(Head(parts).text)]
         ELSE user_message_text(Tail(parts))

\* reminder_time.strftime("%-I:%M %p on %b %d"): the hour on the 12-hour
\* clock, the minute, AM or PM, and the day of the year.
strftime(t) ==
    LET h == (t % Day) \div Hour
    IN  [I |-> IF h % 12 = 0 THEN 12 ELSE h % 12,
         M |-> (t % Hour) \div Minute,
         p |-> IF h < 12 THEN "AM" ELSE "PM",
         day |-> t \div Day]

NoTimeStr == [I |-> 0, M |-> 0, p |-> "", day |-> 0]

ReplyMissingUrl == [kind |-> "missing_url", message |-> <<>>, time_str |-> NoTimeStr]

ReplyHelp == [kind |-> "help", message |-> <<>>, time_str |-> NoTimeStr]

ReplyConfirm(message_text, reminder_time) ==
    [kind |-> "confirm", message |-> message_text, time_str |-> strftime(reminder_time)]

\* JSONRPCResponse(id = request.id, result = TaskResult(contextId, message));
\* the status is TaskResult's default.
JSONRPCResponse(request, reply_text) ==
    [kind |-> "result", id |-> request.id, contextId |-> request.contextId,
     status |-> "completed", reply |-> reply_text]

\* An exception that leaves the endpoint: the framework answers 500.
Unhandled(exc) == [kind |-> "error", exc |-> exc]

\* The check of the URL left out.
NoPushUrl_unchecked(push_url) == FALSE

\* `if not push_url`
NoPushUrl(push_url) == push_url = ""

\* The tuple appended to the list.
NewReminder(reminder_time, message_text, push_url, context_id) ==
    <<reminder_time, message_text, push_url, context_id>>

\* What the endpoint does with a request at time now: the response, and the
\* tuples it appends to the list (none or one).
endpoint(request, now) ==
    LET text == user_message_text(request.parts)
    IN  IF text.kind = "raise"
        THEN [response |-> Unhandled(text.exc), append |-> <<>>]
        ELSE LET parsed_data == parse_reminder_text(text.text, now)
             IN  CASE parsed_data.kind = "raise" ->
                        [response |-> Unhandled(parsed_data.exc), append |-> <<>>]
                   [] parsed_data.kind = "None" ->
                        [response |-> JSONRPCResponse(request, ReplyHelp), append |-> <<>>]
                   [] parsed_data.kind = "parsed" ->
                        IF ~request.config.present
                        THEN [response |-> Unhandled("AttributeError"), append |-> <<>>]
                        ELSE IF NoPushUrl(request.config.url)
                        THEN [response |-> JSONRPCResponse(request, ReplyMissingUrl),
                              append |-> <<>>]
                        ELSE [response |->
                                  JSONRPCResponse(request,
                                      ReplyConfirm(parsed_data.message, parsed_data.time)),
                              append |->
                                  <<NewReminder(parsed_data.time, parsed_data.message,
                                                request.config.url, request.contextId)>>]

\* The append made to the list object the endpoint saw before a run of
\* check_reminders rebound the name: while that run is under way the tuple
\* goes to the old list.
a2a_endpoint_old_list(request, most) ==
    /\ phase = "running"
    /\ handled < most
    /\ LET out == endpoint(request, clock)
           n == Cardinality({i \in Ids : created[i] # NotCreated}) + 1
       IN  /\ exchange' = [request |-> request, response |-> out.response]
           /\ handled' = handled + 1
           /\ reminders' = IF scanner = "gather" THEN reminders
                            ELSE reminders \o [i \in 1..Len(out.append) |->
                                                  Append(out.append[i], n)]
           /\ created' = IF out.append = <<>> THEN created
                         ELSE [created EXCEPT ![n] =
                                  [at |-> clock,
                                   url |-> request.config.url,
                                   contextId |-> request.contextId,
                                   text |-> out.append[1][2]]]
    /\ UNCHANGED <<clock, phase, async_http_client, next_run, scanner, deliveries,
                   extracted, posts>>
    /\ UNCHANGED parseVars

\* The endpoint has no await: one request is handled in one step, the
\* (handled + 1)-th of at most `most`.  The inserts are numbered in their
\* order.
a2a_endpoint(request, most) ==
    /\ phase = "running"
    /\ handled < most
    /\ LET out == endpoint(request, clock)
           n == Cardinality({i \in Ids : created[i] # NotCreated}) + 1
       IN  /\ exchange' = [request |-> request, response |-> out.response]
           /\ handled' = handled + 1
           /\ reminders' = reminders \o [i \in 1..Len(out.append) |-> Append(out.append[i], n)]
           /\ created' = IF out.append = <<>> THEN created
                         ELSE [created EXCEPT ![n] =
                                  [at |-> clock,
                                   url |-> request.config.url,
                                   contextId |-> request.contextId,
                                   text |-> parse_reminder_text(
                                                user_message_text(request.parts).text,
                                                clock).message]]
    /\ UNCHANGED <<clock, phase, async_http_client, next_run, scanner, deliveries,
                   extracted, posts>>
    /\ UNCHANGED parseVars

(***************************************************************************)
(* check_reminders and send_reminder_message                               *)
(***************************************************************************)
\* `r[0] <= now`
IsDue(r, now) == r[1] <= now

\* `r[0] > now`
IsKept(r, now) == r[1] > now

\* The comparison strict on both sides: a tuple due exactly now is in
\* neither list.
due_reminders_strict(list, now) == SelectSeq(list, LAMBDA r : r[1] < now)

\* The batch without the tuples that repeat the four values of an earlier
\* tuple of the list.
due_reminders_dedup(list, now) ==
    LET first(k) == \A j \in 1..(k - 1) : SubSeq(list[j], 1, 4) # SubSeq(list[k], 1, 4)
        F[k \in 0..Len(list)] ==
            IF k = 0 THEN <<>>
            ELSE IF IsDue(list[k], now) /\ first(k) THEN Append(F[k - 1], list[k])
            ELSE F[k - 1]
    IN  F[Len(list)]

due_reminders(list, now) == SelectSeq(list, LAMBDA r : IsDue(r, now))

\* The list not rebuilt: the due tuples stay in it.
kept_reminders_all(list, now) == list

\* The second comparison not strict: a tuple due exactly now is in the
\* batch and stays in the list.
kept_reminders_or_equal(list, now) == SelectSeq(list, LAMBDA r : r[1] >= now)

kept_reminders(list, now) == SelectSeq(list, LAMBDA r : IsKept(r, now))

\* The positional arguments in the order of the tuple instead of the order
\* of the parameters: the message as the URL, the URL as the context id.
Task_tuple_order(r) ==
    [id |-> r[5], push_url |-> r[2], context_id |-> r[3], message_text |-> r[4],
     pc |-> "created", outcome |-> "pending"]

\* The coroutine send_reminder_message(url, context_id, message) made for one
\* tuple of the batch, not yet run.
Task(r) ==
    [id |-> r[5], push_url |-> r[3], context_id |-> r[4], message_text |-> r[2],
     pc |-> "created", outcome |-> "pending"]

Range(f) == {f[i] : i \in DOMAIN f}

\* The first run time of the job after now.
NextRunAfter(run, now) == run + Interval * ((now - run) \div Interval + 1)

\* One run of check_reminders up to its return or its await of gather().
check_reminders ==
    /\ SchedulerRunning
    /\ scanner = "idle"
    /\ clock >= next_run
    /\ LET now == clock
           due == due_reminders(reminders, now)
       IN  /\ reminders' = kept_reminders(reminders, now)
           /\ extracted' = [i \in Ids |->
                               extracted[i] + Cardinality({k \in DOMAIN due : due[k][5] = i})]
           /\ IF due # <<>>
              THEN /\ deliveries' = {Task(r) : r \in Range(due)}
                   /\ scanner' = "gather"
              ELSE UNCHANGED <<deliveries, scanner>>
    /\ next_run' = NextRunAfter(next_run, clock)
    /\ exchange' = NoExchange
    /\ UNCHANGED parseVars
    /\ UNCHANGED <<clock, phase, async_http_client, handled, created, posts>>

\* "REMINDER: " in front of the text (the bell is one more character).
Marker == <<"!", " ", "R", "E", "M", "I", "N", "D", "E", "R", ":", " ">>

\* The outbound request: the URL posted to and the JSON body's contextId and
\* text part.
OutboundRequest(push_url, context_id, message_text) ==
    [url |-> push_url, contextId |-> context_id, method |-> "message/push",
     role |-> "agent", text |-> Marker \o message_text]

\* post() raises on a timeout, a connection error or a closed client; a
\* response with any status is returned.
Raises(outcome) == outcome = "exception"

\* The try without its except clause.
Caught_none(outcome) == FALSE

\* `except Exception as e`: every exception post() raises is an Exception.
Caught(outcome) == outcome = "exception"

\* The coroutine has ended: it has returned, having logged the outcome, or
\* an exception has left it ("raised").
Done(d, outcome) ==
    [d EXCEPT !.pc = "done",
              !.outcome = IF Raises(outcome) /\ ~Caught(outcome) THEN "raised" ELSE outcome]

\* A delivery runs from its start to the await of the POST; without a client
\* it returns at once, and a closed client raises in post().
send_start(d) ==
    /\ phase # "stopped"
    /\ d \in deliveries
    /\ d.pc = "created"
    /\ IF async_http_client = "None"
       THEN /\ deliveries' = (deliveries \ {d}) \cup {Done(d, "no client")}
            /\ UNCHANGED posts
       ELSE /\ posts' = [posts EXCEPT ![d.id] =
                            Append(@, OutboundRequest(d.push_url, d.context_id,
                                                      d.message_text))]
            /\ IF async_http_client = "closed"
               THEN deliveries' = (deliveries \ {d}) \cup {Done(d, "exception")}
               ELSE deliveries' = (deliveries \ {d}) \cup {[d EXCEPT !.pc = "post"]}
    /\ exchange' = NoExchange
    /\ UNCHANGED parseVars
    /\ UNCHANGED <<clock, phase, async_http_client, next_run, reminders, scanner,
                   handled, created, extracted>>

\* gather() taken to cancel the deliveries still under way when one of them
\* fails.
send_finish_fail_fast(d, outcome) ==
    /\ phase # "stopped"
    /\ d \in deliveries
    /\ d.pc = "post"
    /\ deliveries' =
           IF outcome = "success"
           THEN (deliveries \ {d}) \cup {Done(d, outcome)}
           ELSE {IF e = d THEN Done(d, outcome)
                 ELSE IF e.pc = "done" THEN e
                 ELSE [e EXCEPT !.pc = "done", !.outcome = "cancelled"] : e \in deliveries}
    /\ exchange' = NoExchange
    /\ UNCHANGED parseVars
    /\ UNCHANGED <<clock, phase, async_http_client, next_run, reminders, scanner,
                   handled, created, extracted, posts>>

\* What the awaited POST comes back with: a 2xx status, another status, or
\* an exception (timeout, connection error, client closed meanwhile).
Outcomes == {"success", "error status", "exception"}

send_finish(d, outcome) ==
    /\ phase # "stopped"
    /\ d \in deliveries
    /\ d.pc = "post"
    /\ deliveries' = (deliveries \ {d}) \cup {Done(d, outcome)}
    /\ exchange' = NoExchange
    /\ UNCHANGED parseVars
    /\ UNCHANGED <<clock, phase, async_http_client, next_run, reminders, scanner,
                   handled, created, extracted, posts>>

\* gather() returns when every delivery has returned; the run ends.
gather_done ==
    /\ phase # "stopped"
    /\ scanner = "gather"
    /\ \A d \in deliveries : d.pc = "done"
    /\ scanner' = "idle"
    /\ deliveries' = {}
    /\ exchange' = NoExchange
    /\ UNCHANGED parseVars
    /\ UNCHANGED <<clock, phase, async_http_client, next_run, reminders, handled,
                   created, extracted, posts>>

\* Everything but the requests.
Background ==
    \/ Startup
    \/ ShutdownClient
    \/ ShutdownScheduler
    \/ \E d \in ClockSteps : AdvanceClock(d)
    \/ check_reminders
    \/ \E d \in deliveries : send_start(d)
    \/ \E d \in deliveries, outcome \in Outcomes : send_finish(d, outcome)
    \/ gather_done

Next ==
    \/ Background
    \/ \E request \in StoreRequests : a2a_endpoint(request, MaxRequests)

Spec == Init /\ [][Next]_vars

\* The process with every request of Requests.
EndpointNext ==
    \/ Background
    \/ \E request \in Requests : a2a_endpoint(request, MaxExchanges)

EndpointSpec == Init /\ [][EndpointNext]_vars

\* While the process runs, time passes, the interval job is run when it is
\* due, coroutines that are ready are run, and every POST comes back (with
\* a response or an exception, after timeout=10.0 at the latest).
Fairness ==
    /\ WF_vars(\E d \in ClockSteps : AdvanceClock(d))
    /\ WF_vars(check_reminders)
    /\ WF_vars(\E d \in deliveries : send_start(d))
    /\ WF_vars(\E d \in deliveries, outcome \in Outcomes : send_finish(d, outcome))
    /\ WF_vars(gather_done)

LiveSpec == Spec /\ Fairness

(***************************************************************************)
(* parse_reminder_text on its own: every command of ParseTexts at every    *)
(* instant of ParseTimes.                                                  *)
(***************************************************************************)
\* Instants around midnight, around 09:00 and 09:05, and the last second of
\* the day, on MaxDay + 1 days.
ParseTimes ==
    { d * Day + t : d \in 0..MaxDay,
                    t \in { 0, 1, Minute - 1, Minute, Minute + 1,
                            9 * Hour - 1, 9 * Hour, 9 * Hour + 1, 9 * Hour + 5 * Minute,
                            9 * Hour + 5 * Minute + 30, 23 * Hour + 59 * Minute,
                            Day - 1 } }

ParseInit ==
    /\ ProcessInit
    /\ parse_args \in [text : ParseTexts, now : ParseTimes]
    /\ parse_ret = NotCalled

CallParse ==
    /\ parse_ret = NotCalled
    /\ parse_ret' = parse_reminder_text(parse_args.text, parse_args.now)
    /\ UNCHANGED <<clock, phase, async_http_client, next_run, reminders, scanner,
                   deliveries, handled, exchange, created, extracted, posts, parse_args>>

ParseNext == CallParse

ParseSpec == ParseInit /\ [][ParseNext]_vars

(***************************************************************************)
(* Properties                                                              *)
(***************************************************************************)
InStore(i) == \E k \in DOMAIN reminders : reminders[k][5] = i

Copies(i) == Cardinality({k \in DOMAIN reminders : reminders[k][5] = i})

NotYetRun(i) == \E d \in deliveries : d.id = i /\ d.pc = "created"

\* The step just taken handled a request.
Handled == exchange.response.kind # "none"

\* C1: a reminder is removed from the list at most once and is never in the
\* list after its removal; a POST is handed to the client only for a removed
\* reminder and at most once; and once the delivery coroutine of a removed
\* reminder has run, exactly one POST has been attempted for it.
C1_ExtractedOncePostedOnce ==
    \A i \in Ids :
        /\ extracted[i] <= 1
        /\ Copies(i) + extracted[i] <= 1
        /\ Len(posts[i]) <= extracted[i]
        /\ (extracted[i] = 1 /\ ~NotYetRun(i)) => Len(posts[i]) = 1

\* A reminder was removed and posted, its tick is over, the scheduler has
\* come round to a later run, and another reminder is still pending.
C1_Witness ==
    /\ scanner = "idle"
    /\ reminders # <<>>
    /\ \E i \in Ids : extracted[i] = 1 /\ Len(posts[i]) = 1 /\ clock >= created[i].at + Day

\* C3: every POST goes to the URL of the request that created the reminder,
\* with that request's contextId and with the marker followed by that
\* reminder's message.
C3_DeliveryUsesOwnFields ==
    \A i \in Ids : \A k \in DOMAIN posts[i] :
        /\ posts[i][k].url = created[i].url
        /\ posts[i][k].contextId = created[i].contextId
        /\ posts[i][k].text = Marker \o created[i].text

\* Two reminders of different conversations, extracted by the same tick,
\* both posted.
C3_Witness ==
    \E d1, d2 \in deliveries :
        /\ d1.context_id # d2.context_id
        /\ d1.pc = "post" /\ d2.pc = "post"
        /\ posts[d1.id] # <<>> /\ posts[d2.id] # <<>>

NoCallbackUrl(request) == ~request.config.present \/ request.config.url = ""

\* C5: a request without a callback URL leaves the list as it was, and every
\* tuple of the list has a non-empty URL.
C5_NoUrlNoInsert ==
    /\ [](\A k \in DOMAIN reminders : reminders[k][3] # "")
    /\ [][(Handled' /\ NoCallbackUrl(exchange'.request)) => reminders' = reminders]_vars

\* A command that parses arrived with an empty URL while a reminder was
\* pending.
C5_Witness ==
    /\ Handled
    /\ exchange.request.config = PushConfig("")
    /\ exchange.response.kind = "result"
    /\ exchange.response.reply.kind = "missing_url"
    /\ reminders # <<>>

\* The last instant observed and the last run time of the job up to it.
LastInstant == MaxDay * Day + MaxSecond

LastRun == (LastInstant \div Interval) * Interval

FireTime(i) == reminders[CHOOSE k \in DOMAIN reminders : reminders[k][5] = i][1]

Delivered(i) == extracted[i] = 1 /\ Len(posts[i]) = 1

\* C2: a reminder in the list whose fire time is before the last observed
\* run of the job is eventually removed and posted, unless the process is
\* shut down first; and a reminder leaves the list only by a run of
\* check_reminders at or after its fire time.
C2_EventuallyDelivered ==
    /\ \A i \in Ids :
           (InStore(i) /\ FireTime(i) < LastRun) ~> (Delivered(i) \/ phase = "stopped")
    /\ [][\A i \in Ids :
              (InStore(i) /\ ~InStore(i)') =>
                  /\ extracted'[i] = extracted[i] + 1
                  /\ FireTime(i) <= clock
                  /\ \E d \in deliveries' : d.id = i]_vars

\* A reminder made on day 0 has been delivered on day 1, the process still
\* running.
C2_Witness ==
    \E i \in Ids :
        /\ Delivered(i)
        /\ created[i].at < Day
        /\ posts[i][1].text = Marker \o MsgA
        /\ clock >= Day + Minute
        /\ phase = "running"

\* The command text of a request parses to a message and a time.
ParsesOk(request, now) ==
    LET t == user_message_text(request.parts)
    IN  t.kind = "text" /\ parse_reminder_text(t.text, now).kind = "parsed"

\* C4: a request whose text parses and whose configuration has no callback
\* URL (no push configuration, or an empty URL) gets a normal reply with the
\* missing-callback-URL message.
C4_MissingUrlReply ==
    (Handled /\ ParsesOk(exchange.request, clock) /\ NoCallbackUrl(exchange.request))
        => /\ exchange.response.kind = "result"
           /\ exchange.response.reply.kind = "missing_url"

\* The request has a command text and neither pattern is found in it.
Unrecognized(request) ==
    LET t == user_message_text(request.parts)
    IN  t.kind = "text" /\ ~SearchIn[t.text].ok /\ ~SearchAt[t.text].ok

\* C6: a request whose command text matches neither pattern gets the usage
\* help as its reply and leaves the list as it was.
C6_UnrecognizedGetsHelp ==
    [][(Handled' /\ Unrecognized(exchange'.request)) =>
           /\ exchange'.response.kind = "result"
           /\ exchange'.response.reply.kind = "help"
           /\ reminders' = reminders]_vars

\* `hello there` arrived while a reminder was pending and got the help.
C6_Witness ==
    /\ Handled
    /\ exchange.request.parts = <<TextPart(HelloThere)>>
    /\ exchange.response.kind = "result"
    /\ exchange.response.reply.kind = "help"
    /\ reminders # <<>>

\* C7: every request gets a reply with status "completed", its own id and
\* contextId, and one of the three reply texts.
C7_AlwaysReplies ==
    Handled =>
        /\ exchange.response.kind = "result"
        /\ exchange.response.status = "completed"
        /\ exchange.response.id = exchange.request.id
        /\ exchange.response.contextId = exchange.request.contextId
        /\ exchange.response.reply.kind \in {"confirm", "missing_url", "help"}

\* C8: every tuple of the list has a fire time strictly later than the time
\* at which it was made.
C8_FireAtStrictlyLater ==
    \A k \in DOMAIN reminders : reminders[k][1] > created[reminders[k][5]].at

\* C8 as amended: every tuple of the list has a fire time not earlier than
\* the time the parser read as now when the tuple was made.
C8_FireAtNotEarlier ==
    \A k \in DOMAIN reminders : reminders[k][1] >= created[reminders[k][5]].at

\* The list holds a tuple due at the very instant it was made, and a tuple
\* rolled to the next day.
C8_Witness ==
    /\ \E k \in DOMAIN reminders : reminders[k][1] = created[reminders[k][5]].at
    /\ \E k \in DOMAIN reminders :
           reminders[k][1] \div Day = created[reminders[k][5]].at \div Day + 1

\* A command that only the at-pattern matches, with a valid hour and minute.
ValidAt(text) ==
    /\ ~SearchIn[text].ok
    /\ SearchAt[text].ok
    /\ int(SearchAt[text].caps[2]) \in 0..23
    /\ int(SearchAt[text].caps[3]) \in 0..59

\* Today at H:MM:00.
TodayAt(text, now) ==
    now - (now % Day) + int(SearchAt[text].caps[2]) * 3600 + int(SearchAt[text].caps[3]) * 60

ParseCalled == parse_ret # NotCalled

\* C9: an at-command with a valid H:MM yields today at H:MM:00 if that is
\* strictly after now, and otherwise tomorrow at H:MM:00.
C9_TodayIfStrictlyAfter ==
    (ParseCalled /\ ValidAt(parse_args.text)) =>
        LET today == TodayAt(parse_args.text, parse_args.now)
        IN  /\ parse_ret.kind = "parsed"
            /\ parse_ret.time = IF today > parse_args.now THEN today ELSE today + 86400

\* C9 as amended: an at-command with a valid H:MM yields today at H:MM:00 if
\* that is at or after now, and tomorrow at H:MM:00 only if it is strictly
\* before now.
C9_TodayIfNotBefore ==
    (ParseCalled /\ ValidAt(parse_args.text)) =>
        LET today == TodayAt(parse_args.text, parse_args.now)
        IN  /\ parse_ret.kind = "parsed"
            /\ parse_ret.message = MsgA
            /\ parse_ret.time = IF today >= parse_args.now THEN today ELSE today + 86400

\* `at 9:00` parsed at 09:00:00 sharp, on the second day.
C9_Witness ==
    /\ ParseCalled
    /\ parse_args.text = CmdAt(MsgA, H_9, M_00)
    /\ parse_args.now = Day + 9 * Hour
    /\ parse_ret.kind = "parsed"
    /\ parse_ret.time = parse_args.now

\* An at-shaped command with the hour outside 0..23 or the minute outside
\* 0..59.
OutOfRangeAt(request) ==
    LET t == user_message_text(request.parts)
    IN  /\ t.kind = "text"
        /\ ~SearchIn[t.text].ok
        /\ SearchAt[t.text].ok
        /\ \/ int(SearchAt[t.text].caps[2]) \notin 0..23
           \/ int(SearchAt[t.text].caps[3]) \notin 0..59

\* C10: an at-shaped command with the hour or the minute out of range is
\* unrecognized: the reply is the usage help.
C10_OutOfRangeUnrecognized ==
    (Handled /\ OutOfRangeAt(exchange.request)) =>
        /\ exchange.response.kind = "result"
        /\ exchange.response.reply.kind = "help"

\* The outcomes of a delivery that failed.
Failures == {"error status", "exception"}

\* C11: a failed delivery is the end of its reminder: the reminder is not in
\* the list, exactly one POST was made for it, and the coroutine returned
\* (no exception left it); and no step puts a removed reminder back into the
\* list or makes a POST for a reminder that already has one.
C11_FailureIsTerminal ==
    /\ [](\A d \in deliveries :
            /\ d.outcome # "raised"
            /\ (d.pc = "done" /\ d.outcome \in Failures) =>
                   /\ ~InStore(d.id)
                   /\ Len(posts[d.id]) = 1)
    /\ [][\A i \in Ids :
              /\ (InStore(i)' /\ ~InStore(i)) => (extracted[i] = 0 /\ posts[i] = <<>>)
              /\ (posts'[i] # posts[i]) => (posts[i] = <<>> /\ Len(posts'[i]) = 1)]_vars

\* While the client is open, one delivery of a batch has come back with a
\* status outside 2xx and another with an exception.
C11_Witness ==
    /\ async_http_client = "open"
    /\ \E d1, d2 \in deliveries :
           /\ d1.pc = "done" /\ d1.outcome = "error status"
           /\ d2.pc = "done" /\ d2.outcome = "exception"

\* The deliveries of the tick under way, by the insert they are for.
DeliveryOf(i) == CHOOSE d \in deliveries : d.id = i

BatchIds == {d.id : d \in deliveries}

\* C12: every reminder a tick removes gets its own delivery, which can start
\* and can come back with any outcome whatever state its siblings are in; a
\* step of one delivery leaves every sibling's record as it was; and the
\* tick ends only when a POST has been made for every reminder of the batch.
C12_SiblingsIndependent ==
    /\ [](\A i \in Ids :
            (extracted[i] = 1 /\ posts[i] = <<>>) => i \in BatchIds)
    /\ [](phase # "stopped" =>
            \A d \in deliveries :
                /\ d.pc = "created" => ENABLED send_start(d)
                /\ d.pc = "post" => \A o \in Outcomes : ENABLED send_finish(d, o))
    /\ [](scanner = "idle" => \A i \in Ids : extracted[i] = Len(posts[i]))
    /\ [][(deliveries # {} /\ deliveries' # {}) =>
              /\ BatchIds' = BatchIds
              /\ Cardinality({i \in BatchIds : DeliveryOf(i)' # DeliveryOf(i)}) <= 1
              /\ \A i \in BatchIds :
                     DeliveryOf(i).pc = "done" => DeliveryOf(i)' = DeliveryOf(i)]_vars

\* In one batch, while the client is open, one delivery has failed with an
\* exception and its sibling has then succeeded.
C12_Witness ==
    /\ async_http_client = "open"
    /\ \E d1, d2 \in deliveries :
           /\ d1.pc = "done" /\ d1.outcome = "exception"
           /\ d2.pc = "done" /\ d2.outcome = "success"
           /\ Len(posts[d1.id]) = 1 /\ Len(posts[d2.id]) = 1

\* The step is a run of check_reminders: the only step that moves the next
\* run time of a started job.
Tick == phase # "init" /\ next_run' # next_run

\* The step handled a request and confirmed a reminder.
Confirmed == Handled /\ exchange.response.kind = "result"
                     /\ exchange.response.reply.kind = "confirm"

\* The inserts made so far.
Created == {i \in Ids : created[i] # NotCreated}

\* Two places of the list with the same four values: equal fire time, text,
\* URL and contextId.
Twins(list, j, k) == j # k /\ SubSeq(list[j], 1, 4) = SubSeq(list[k], 1, 4)

\* Two deliveries of one batch with the same text, URL and contextId.
TwinDeliveries(d, e) ==
    /\ d.id # e.id
    /\ d.message_text = e.message_text
    /\ d.push_url = e.push_url
    /\ d.context_id = e.context_id

\* C13: the list is a multiset: it has one place for every insert that no
\* run has removed yet, and two places with equal values belong to two
\* inserts; a confirmed command makes the list one tuple longer, also when
\* an equal tuple is in it already; a run removes both of two equal tuples,
\* counts each as removed once and makes a delivery for each; and each of
\* the two deliveries makes its own POST.
C13_DuplicatesIndependent ==
    /\ [](/\ Len(reminders) = Cardinality({i \in Created : extracted[i] = 0})
          /\ \A j, k \in DOMAIN reminders :
                 Twins(reminders, j, k) => reminders[j][5] # reminders[k][5])
    /\ [](\A d, e \in deliveries :
            (TwinDeliveries(d, e) /\ d.pc # "created") => Len(posts[d.id]) = 1)
    /\ [](\A i \in Created : posts[i] # <<>> => posts[i][1].text = Marker \o created[i].text)
    /\ [][Confirmed' =>
              /\ Len(reminders') = Len(reminders) + 1
              /\ SubSeq(reminders', 1, Len(reminders)) = reminders]_vars
    /\ [][\A j, k \in DOMAIN reminders :
              (Tick /\ Twins(reminders, j, k) /\ reminders[j][1] <= clock) =>
                  /\ extracted'[reminders[j][5]] = 1
                  /\ extracted'[reminders[k][5]] = 1
                  /\ \E d, e \in deliveries' :
                         /\ d.id = reminders[j][5]
                         /\ e.id = reminders[k][5]
                         /\ TwinDeliveries(d, e)]_vars

\* The same command was confirmed twice at one instant, with a fire time at
\* that instant; a run at that instant has removed both tuples and each has
\* its POST.  (No fire time is before the insert and no removal before the
\* fire time, so both fire times are this instant.)
C13_Witness ==
    \E d, e \in deliveries :
        /\ TwinDeliveries(d, e)
        /\ created[d.id].at = clock /\ created[e.id].at = clock
        /\ extracted[d.id] = 1 /\ extracted[e.id] = 1
        /\ Len(posts[d.id]) = 1 /\ Len(posts[e.id]) = 1

\* C14: every tuple of the list has a non-empty message text.
C14_TextNonEmpty ==
    \A k \in DOMAIN reminders : reminders[k][2] # <<>>

\* C15: an in-command with message X and N minutes parses to X and to
\* now + N minutes, whatever N, the unit's number and the letter case, also
\* when the at-pattern matches the text as well; with ManyDigits as N it
\* parses to X and a time.
C15_InMinutesExact ==
    /\ \A c \in InCommands :
           (ParseCalled /\ parse_args.text = c.text) =>
               parse_ret = Parsed(c.message, parse_args.now + c.minutes * 60)
    /\ \A c \in HugeInCommands :
           (ParseCalled /\ parse_args.text = c.text) =>
               (parse_ret.kind = "parsed" /\ parse_ret.message = c.message)

\* The same for the in-commands whose fire time a datetime can hold.
C15_InMinutesExactInRange ==
    \A c \in InCommands :
        (ParseCalled /\ parse_args.text = c.text) =>
            parse_ret = Parsed(c.message, parse_args.now + c.minutes * 60)

\* C16: a run of check_reminders at time now splits the list in two: every
\* tuple with a fire time at or before now leaves the list, is counted as
\* removed once and gets a delivery; every tuple with a later fire time stays
\* in the list as it is, in its place among those that stay, and gets no
\* delivery; the batch and the list afterwards hold nothing else; and now
\* is one instant for both.
C16_ExactPartition ==
    [][Tick =>
          LET due == {k \in DOMAIN reminders : reminders[k][1] <= clock}
              rest == {k \in DOMAIN reminders : reminders[k][1] > clock}
              new == IF deliveries' = deliveries THEN {} ELSE deliveries'
          IN  /\ clock' = clock
              /\ \A k \in due :
                     /\ \A j \in DOMAIN reminders' : reminders'[j] # reminders[k]
                     /\ extracted'[reminders[k][5]] = extracted[reminders[k][5]] + 1
                     /\ Cardinality({d \in new : d.id = reminders[k][5]}) = 1
              /\ \A k \in rest :
                     /\ reminders'[Cardinality({j \in rest : j <= k})] = reminders[k]
                     /\ extracted'[reminders[k][5]] = extracted[reminders[k][5]]
                     /\ \A d \in new : d.id # reminders[k][5]
              /\ Len(reminders') = Cardinality(rest)
              /\ Cardinality(new) = Cardinality(due)
              /\ \A d \in new :
                     \E k \in due :
                         /\ d.id = reminders[k][5]
                         /\ d.message_text = reminders[k][2]
                         /\ d.push_url = reminders[k][3]
                         /\ d.context_id = reminders[k][4]]_vars

\* A run has just removed a tuple inserted, and so due, at this very instant
\* and has left in the list a tuple that was inserted before it and is due
\* later.
C16_Witness ==
    /\ scanner = "gather"
    /\ \E d \in deliveries :
           /\ d.pc = "created"
           /\ created[d.id].at = clock
           /\ \E k \in DOMAIN reminders : reminders[k][1] > clock /\ reminders[k][5] < d.id

\* C17: whatever the order of requests, runs of check_reminders and steps of
\* deliveries, every insert made is in the list once or has been removed
\* once, never both and never neither; a confirmed request puts its tuple
\* into the list and touches no other, also while a run awaits its
\* deliveries; and a tuple is removed only by a run, from the list, and only
\* if no run removed it before.
C17_StoreSerialized ==
    /\ [](\A i \in Ids :
            IF i \in Created THEN Copies(i) + extracted[i] = 1
            ELSE Copies(i) = 0 /\ extracted[i] = 0)
    /\ [][Confirmed' =>
              /\ extracted' = extracted
              /\ \E i \in Created' \ Created :
                     /\ InStore(i)'
                     /\ \A j \in Ids \ {i} : Copies(j)' = Copies(j)]_vars
    /\ [][\A i \in Ids :
              extracted'[i] # extracted[i] => (Tick /\ InStore(i) /\ extracted[i] = 0)]_vars

\* A request was confirmed while a run of check_reminders was awaiting a
\* POST, and its tuple is in the list.
C17_Witness ==
    /\ Confirmed
    /\ scanner = "gather"
    /\ \E d \in deliveries : d.pc = "post"
    /\ \E k \in DOMAIN reminders : created[reminders[k][5]].at = clock

\* C18: a run of check_reminders does not wait for the deliveries it has
\* started: while deliveries are outstanding no run is suspended on them, and
\* a run that is due can take place.
C18_TickDoesNotWait ==
    /\ (\E d \in deliveries : d.pc # "done") => scanner = "idle"
    /\ (SchedulerRunning /\ clock >= next_run) => ENABLED check_reminders

\* C19: an at-command whose H:MM is the minute now is in, at whatever second
\* of that minute, yields today at H:MM:00.
C19_CurrentMinuteToday ==
    (/\ ParseCalled
     /\ ValidAt(parse_args.text)
     /\ TodayAt(parse_args.text, parse_args.now) = parse_args.now - (parse_args.now % 60))
        => /\ parse_ret.kind = "parsed"
           /\ parse_ret.time = TodayAt(parse_args.text, parse_args.now)

\* C20: a run of check_reminders removes tuples from the list only while
\* the client exists and is open, and every tuple removed gets a POST on an
\* open client.
C20_ExtractOnlyWithClient ==
    /\ [][\A i \in Ids : extracted'[i] # extracted[i] => async_http_client = "open"]_vars
    /\ [][\A i \in Ids : posts'[i] # posts[i] => async_http_client = "open"]_vars

====
